---- MODULE Spec2Model ----
(***************************************************************************)
(* Multi-organization access resolution of the FHIR HMIS backend.          *)
(*                                                                         *)
(* The store is the relational database (users, user_organization_access,  *)
(* organizations, patients, practitioners, appointments and the junction   *)
(* tables).  Every HTTP request occupies a slot of `req`; the preHandler   *)
(* hook of src/src/middleware/auth.ts advances the slot from one awaited   *)
(* database call to the next, then the route handler answers.              *)
(***************************************************************************)
EXTENDS Integers, Sequences, FiniteSets, TLC

\* ------------------------------------------------------------------ bounds
MaxOrgs == 3
MaxPatients == 3
MaxPractitioners == 3
MaxAppointments == 2
MaxRequests == 2
MaxAdminOps == 1
NumReqs == 2

\* ------------------------------------------------------------- identifiers
NoOrg == 0
NoUser == "nobody"

Orgs == 1..MaxOrgs
SeedOrgs == 1..(MaxOrgs - 1)
Patients == 1..MaxPatients
SeedPatients == 1..(MaxPatients - 1)
Practitioners == 1..MaxPractitioners
SeedPractitioners == 1..(MaxPractitioners - 1)
Appointments == 1..MaxAppointments
SeedAppointments == 1..(MaxAppointments - 1)
UserIds == {"A", "B", "C"}
Reqs == 1..NumReqs

MemberStatus == {"active", "inactive", "suspended"}

\* schema.prisma 37: the values of UserOrganizationAccess.role
AccessRoles == {"admin", "practitioner", "staff", "readonly"}

VARIABLES
    users,              \* users table: id -> row
    access,             \* user_organization_access rows
    organizations,      \* organizations table: id -> row
    patients,           \* patients table (ids)
    patientOrgs,        \* patient_organizations rows
    practitioners,      \* practitioners table (ids)
    practitionerOrgs,   \* practitioner_organizations rows
    appointments,       \* appointments rows
    req,                \* request slots
    started,            \* requests received so far
    adminOps,           \* administrative store changes so far
    seed                \* a run of the seed script: its position

store == <<users, access, organizations, patients, patientOrgs,
           practitioners, practitionerOrgs, appointments>>
resources == <<patients, patientOrgs, practitioners, practitionerOrgs, appointments>>
vars == <<users, access, organizations, patients, patientOrgs,
          practitioners, practitionerOrgs, appointments, req, started, adminOps, seed>>

\* ------------------------------------------------------------ pure helpers
Range(s) == {s[i] : i \in 1..Len(s)}

\* every enumeration order of a finite set (a findMany without orderBy)
Orderings(S) ==
    {s \in [1..Cardinality(S) -> S] : \A i, j \in 1..Cardinality(S) : i # j => s[i] # s[j]}

StartsWith(s, p) == Len(p) <= Len(s) /\ SubSeq(s, 1, Len(p)) = p

\* ------------------------------------------------------------------ URLs
\* A URL is the sequence of its path segments ("/fhir", "/Patient", "/:id")
\* followed by the pieces of its query string.
SlashTokens ==
    {"/", "/health", "/metrics", "/test", "/debug", "/api", "/auth", "/login",
     "/register", "/docs", "/static", "/json", "/yaml", "/uiConfig", "/initOAuth",
     "/fhir", "/Patient", "/Practitioner", "/Organization", "/Appointment", "/:id",
     "/refresh", "/logout", "/assign-organization", "/user", "/switch-organization"}

Routes ==
    {"Health",
     "PatientSearch", "PatientGet", "PatientCreate", "PatientUpdate",
     "PractitionerSearch", "PractitionerGet", "PractitionerCreate", "PractitionerUpdate",
     "OrganizationSearch", "OrganizationGet", "OrganizationCreate"}

\* the routes whose request carries a body or that the first group leaves out
BodyRoutes ==
    {"Docs", "Login", "Register", "Refresh", "Logout",
     "OrganizationUpdate", "PatientAssign", "PractitionerAssign",
     "AppointmentSearch", "AppointmentGet", "AppointmentCreate", "AppointmentUpdate",
     "AppointmentCancel", "SwitchOrganization"}

IdRoutes == {"PatientGet", "PatientUpdate", "PractitionerGet", "PractitionerUpdate",
             "OrganizationGet"}

RoutePath(route) ==
    CASE route = "Health" -> <<"/health">>
      [] route \in {"PatientSearch", "PatientCreate"} -> <<"/fhir", "/Patient">>
      [] route \in {"PatientGet", "PatientUpdate"} -> <<"/fhir", "/Patient", "/:id">>
      [] route \in {"PractitionerSearch", "PractitionerCreate"} -> <<"/fhir", "/Practitioner">>
      [] route \in {"PractitionerGet", "PractitionerUpdate"} -> <<"/fhir", "/Practitioner", "/:id">>
      [] route \in {"OrganizationSearch", "OrganizationCreate"} -> <<"/fhir", "/Organization">>
      [] route = "OrganizationGet" -> <<"/fhir", "/Organization", "/:id">>
      [] route = "Docs" -> <<"/docs">>
      [] route = "Login" -> <<"/api", "/auth", "/login">>
      [] route = "Register" -> <<"/api", "/auth", "/register">>
      [] route = "Refresh" -> <<"/api", "/auth", "/refresh">>
      [] route = "Logout" -> <<"/api", "/auth", "/logout">>
      [] route = "OrganizationUpdate" -> <<"/fhir", "/Organization", "/:id">>
      [] route = "PatientAssign" -> <<"/fhir", "/Patient", "/:id", "/assign-organization">>
      [] route = "PractitionerAssign" -> <<"/fhir", "/Practitioner", "/:id", "/assign-organization">>
      [] route \in {"AppointmentSearch", "AppointmentCreate"} -> <<"/fhir", "/fhir", "/Appointment">>
      [] route \in {"AppointmentGet", "AppointmentUpdate", "AppointmentCancel"} ->
            <<"/fhir", "/fhir", "/Appointment", "/:id">>
      [] route = "SwitchOrganization" -> <<"/api", "/user", "/switch-organization">>

Queries == {"none", "organization", "docs"}

QueryTokens(q) ==
    CASE q = "none" -> <<>>
      [] q = "organization" -> <<"?organization=", "id">>
      [] q = "docs" -> <<"?name=", "/docs", "/">>

Url(route, q) == RoutePath(route) \o QueryTokens(q)

publicRoutes ==
    {<<"/health">>, <<"/metrics">>, <<"/test">>, <<"/debug">>,
     <<"/api", "/auth", "/login">>, <<"/api", "/auth", "/register">>,
     <<"/docs">>, <<"/docs", "/static">>, <<"/docs", "/json">>, <<"/docs", "/yaml">>,
     <<"/docs", "/uiConfig">>, <<"/docs", "/initOAuth">>}

isPublicRoute(url) == \E route \in publicRoutes : StartsWith(url, route) \/ url = route

\* request.url.includes("/docs/") etc.: the segment followed by another "/"
IncludesSegment(url, seg) ==
    \E i \in 1..(Len(url) - 1) : url[i] = seg /\ url[i + 1] \in SlashTokens

SkipsAuth(url) ==
    \/ IncludesSegment(url, "/docs")
    \/ IncludesSegment(url, "/static")
    \/ StartsWith(url, <<"/debug">>)

\* ---------------------------------------------------------------- tokens
\* What the Authorization header carries: nothing, "Bearer " with no token,
\* a token that fails verification, or a token signed for a user id.
BadAuth == {"missing", "empty", "malformed", "badsignature", "expired"}
Auths == BadAuth \cup UserIds

\* ------------------------------------------------------------------ store
NoRow == [exists |-> FALSE, role |-> "none", active |-> FALSE, primaryOrganizationId |-> NoOrg]

UserRow(role, primary) ==
    [exists |-> TRUE, role |-> role, active |-> TRUE, primaryOrganizationId |-> primary]

AccessRow(u, o, role, status, n) ==
    [userId |-> u, organizationId |-> o, role |-> role, status |-> status, n |-> n]

RowsOf(acc, u, o) == {r \in acc : r.userId = u /\ r.organizationId = o}

\* the table without its unique index
UniqueViolationUnindexed(acc, u, o) == FALSE

\* @@unique([userId, organizationId]): the insert is refused when a row exists
UniqueViolation(acc, u, o) == RowsOf(acc, u, o) # {}

ActiveAccess(acc, u) == {r \in acc : r.userId = u /\ r.status = "active"}

ActiveOrgsOf(acc, u) == {r.organizationId : r \in ActiveAccess(acc, u)}

ActiveOrganizations(orgs) == {o \in Orgs : orgs[o].exists /\ orgs[o].active}

\* POST /api/auth/register: the user row and, with an organizationId, its access row
RegisterRole(role) == IF role = "super_admin" THEN "admin" ELSE role

RegisterAccess(u, role, organizationId) ==
    IF organizationId # NoOrg
    THEN {AccessRow(u, organizationId, RegisterRole(role), "active", 0)}
    ELSE {}

\* seed: the admin gets an active admin row per organization
SeedAccess(u, orgSet) == {AccessRow(u, o, "admin", "active", 0) : o \in orgSet}

\* seed: resource i goes to organization i % createdOrgs.length
SeedAssignments(ids) ==
    {[id |-> i, organizationId |-> ((i - 1) % Cardinality(SeedOrgs)) + 1, status |-> "active"] : i \in ids}

\* jwt.sign({ userId, email, role }): the e-mail address stands for the user id
NoToken == [userId |-> NoUser, email |-> NoUser, role |-> "none"]
Token(u, role) == [userId |-> u, email |-> u, role |-> role]

\* seed: appointment i is for patient i and practitioner i in organization
\* i % createdOrgs.length
SeedAppointmentRows(ids) ==
    {[id |-> i, patientId |-> i, practitionerId |-> i,
      organizationId |-> ((i - 1) % Cardinality(SeedOrgs)) + 1, status |-> "booked"] : i \in ids}

\* ---------------------------------------------------------- request slots
Idle ==
    [pc |-> "idle", auth |-> "missing", route |-> "Health", id |-> 0, q |-> "none",
     qorg |-> NoOrg, active |-> TRUE, hdr |-> NoOrg, bypass |-> FALSE,
     uid |-> NoUser, role |-> "none", primaryOrganizationId |-> NoOrg,
     organizationIds |-> <<>>, organizationAccess |-> <<>>,
     allOrganizations |-> <<>>, idx |-> 0, healed |-> FALSE, absorbed |-> 0,
     attached |-> FALSE, currentOrganizationId |-> NoOrg,
     status |-> 0, body |-> {}, wrote |-> FALSE,
     email |-> NoUser, password |-> FALSE, brole |-> "none",
     organizationId |-> NoOrg, patientId |-> 0, practitionerId |-> 0,
     failed |-> FALSE, token |-> NoToken]

Reply(r, code) == [r EXCEPT !.pc = "replied", !.status = code]

\* --------------------------------------------------------------- Init
\* The database after the seed script and the registrations: A is the platform
\* administrator (seeded with every seed organization, or registered with or
\* without an organization), B an organization administrator registered with
\* or without an organization.
Init ==
    /\ \E adminSeeded \in BOOLEAN, orgA \in {NoOrg, 1}, orgB \in {NoOrg} \cup SeedOrgs :
          /\ adminSeeded => orgA = 1
          /\ users = [u \in UserIds |->
                        IF u = "A" THEN UserRow("super_admin", orgA)
                        ELSE IF u = "B" THEN UserRow("org_admin", orgB)
                        ELSE NoRow]
          /\ access = (IF adminSeeded THEN SeedAccess("A", SeedOrgs)
                        ELSE RegisterAccess("A", "super_admin", orgA))
                        \cup RegisterAccess("B", "org_admin", orgB)
    /\ organizations = [o \in Orgs |-> [exists |-> o \in SeedOrgs, active |-> o \in SeedOrgs]]
    /\ patients = SeedPatients
    /\ patientOrgs = SeedAssignments(SeedPatients)
    /\ practitioners = SeedPractitioners
    /\ practitionerOrgs = SeedAssignments(SeedPractitioners)
    /\ appointments = SeedAppointmentRows(SeedAppointments)
    /\ req = [r \in Reqs |-> Idle]
    /\ started = 0
    /\ adminOps = 0
    /\ seed = [pc |-> "idle", idx |-> 0]

\* ------------------------------------------------- preHandler (auth.ts)
\* Lines 16-123: the public-route test, then the Authorization header and the
\* token; everything up to the first awaited store call.
\* the same with the token looked at before the allow-list
PreHandlerStartTokenFirst(r) ==
    LET url == Url(r.route, r.q) IN
    IF r.auth \in BadAuth
    THEN Reply(r, 401)
    ELSE IF SkipsAuth(url) \/ isPublicRoute(url)
    THEN [r EXCEPT !.pc = "handler", !.bypass = TRUE]
    ELSE [r EXCEPT !.pc = "lookup", !.uid = r.auth]

PreHandlerStart(r) ==
    LET url == Url(r.route, r.q) IN
    IF SkipsAuth(url) \/ isPublicRoute(url)
    THEN [r EXCEPT !.pc = "handler", !.bypass = TRUE]
    ELSE IF r.auth \in BadAuth
    THEN Reply(r, 401)
    ELSE [r EXCEPT !.pc = "lookup", !.uid = r.auth]

Receive(i, auth, route, id, q, qorg, active, hdr) ==
    /\ req[i].pc = "idle"
    /\ started < MaxRequests
    /\ started' = started + 1
    /\ req' = [req EXCEPT ![i] =
                 PreHandlerStart([Idle EXCEPT !.auth = auth, !.route = route, !.id = id,
                                              !.q = q, !.qorg = qorg, !.active = active,
                                              !.hdr = hdr])]
    /\ UNCHANGED <<store, adminOps, seed>>

\* a request with a body: the fields the handlers read from request.body
ReceiveBody(i, auth, hdr, s) ==
    /\ req[i].pc = "idle"
    /\ started < MaxRequests
    /\ started' = started + 1
    /\ req' = [req EXCEPT ![i] =
         PreHandlerStart([Idle EXCEPT
             !.auth = auth, !.hdr = hdr,
             !.route = s.route, !.id = s.id, !.q = s.q, !.active = s.active,
             !.email = s.email, !.password = s.password, !.brole = s.brole,
             !.organizationId = s.organizationId, !.patientId = s.patientId,
             !.practitionerId = s.practitionerId])]
    /\ UNCHANGED <<store, adminOps, seed>>

\* Lines 128-176: user.findUnique with the active access rows, the two 401s,
\* organizationIds and the self-heal test.
LoadUser(i) ==
    LET r == req[i]
        u == users[r.uid]
    IN
    /\ r.pc = "lookup"
    /\ \E rows \in Orderings(ActiveAccess(access, r.uid)) :
          req' = [req EXCEPT ![i] =
                    IF ~u.exists \/ ~u.active
                    THEN Reply(r, 401)
                    ELSE [r EXCEPT
                            !.role = u.role,
                            !.primaryOrganizationId = u.primaryOrganizationId,
                            !.organizationIds = [k \in 1..Len(rows) |-> rows[k].organizationId],
                            !.organizationAccess =
                                [k \in 1..Len(rows) |->
                                    [organizationId |-> rows[k].organizationId,
                                     role |-> rows[k].role, status |-> rows[k].status]],
                            !.pc = IF Len(rows) = 0 /\ u.role = "super_admin"
                                   THEN "enumerate" ELSE "select"]]
    /\ UNCHANGED <<store, started, adminOps, seed>>

\* Lines 181-186: organization.findMany({ where: { active: true } })
Enumerate(i) ==
    LET r == req[i] IN
    /\ r.pc = "enumerate"
    /\ \E all \in Orderings(ActiveOrganizations(organizations)) :
          req' = [req EXCEPT ![i] =
                    [r EXCEPT !.allOrganizations = all, !.idx = 1,
                              !.pc = IF Len(all) = 0 THEN "primary" ELSE "insert"]]
    /\ UNCHANGED <<store, started, adminOps, seed>>

\* Lines 189-206: one userOrganizationAccess.create of the loop; whatever it
\* throws is caught and the loop goes on.
CreateAccess(acc, usr, u, o) ==
    IF UniqueViolation(acc, u, o) \/ ~usr[u].exists
    THEN acc
    ELSE acc \cup {AccessRow(u, o, "admin", "active", Cardinality(RowsOf(acc, u, o)))}

InsertAccess(i) ==
    LET r == req[i]
        o == r.allOrganizations[r.idx]
        acc == CreateAccess(access, users, r.uid, o)
    IN
    /\ r.pc = "insert"
    /\ access' = acc
    /\ req' = [req EXCEPT ![i] =
                 [r EXCEPT !.idx = r.idx + 1,
                           !.absorbed = r.absorbed + (IF acc = access THEN 1 ELSE 0),
                           !.pc = IF r.idx = Len(r.allOrganizations) THEN "primary" ELSE "insert"]]
    /\ UNCHANGED <<users, organizations, resources, started, adminOps, seed>>

\* Lines 208-243: user.update of primaryOrganizationId when the loaded row had
\* none, then organizationIds and organizationAccess rebuilt from the
\* enumeration.  An update that throws (the row is gone) lands in the outer
\* catch and leaves both as loaded.
HealedAccess(all) ==
    [k \in 1..Len(all) |-> [organizationId |-> all[k], role |-> "admin", status |-> "active"]]

SetPrimary(i) ==
    LET r == req[i]
        needsUpdate == r.primaryOrganizationId = NoOrg /\ Len(r.allOrganizations) > 0
        throws == needsUpdate /\ ~users[r.uid].exists
    IN
    /\ r.pc = "primary"
    /\ users' = IF needsUpdate /\ ~throws
                THEN [users EXCEPT ![r.uid].primaryOrganizationId = r.allOrganizations[1]]
                ELSE users
    /\ req' = [req EXCEPT ![i] =
                 IF throws
                 THEN [r EXCEPT !.pc = "select"]
                 ELSE [r EXCEPT !.organizationIds = r.allOrganizations,
                                !.organizationAccess = HealedAccess(r.allOrganizations),
                                !.healed = TRUE,
                                !.pc = "select"]]
    /\ UNCHANGED <<access, organizations, resources, started, adminOps, seed>>

\* the same with the primary organization tried before the header
SelectCurrentPrimaryFirst(hdr, primary, organizationIds) ==
    IF primary # NoOrg THEN primary
    ELSE IF hdr # NoOrg THEN hdr
    ELSE IF Len(organizationIds) > 0 THEN organizationIds[1]
    ELSE NoOrg

\* Lines 246-249: header, else primary organization, else first membership
SelectCurrent(hdr, primary, organizationIds) ==
    IF hdr # NoOrg THEN hdr
    ELSE IF primary # NoOrg THEN primary
    ELSE IF Len(organizationIds) > 0 THEN organizationIds[1]
    ELSE NoOrg

\* the check reduced to "the caller has some membership"
AccessDeniedUnlessMember(cur, organizationIds) == cur # NoOrg /\ Len(organizationIds) = 0

\* Lines 252-255: the consistency check
AccessDenied(cur, organizationIds) == cur # NoOrg /\ cur \notin Range(organizationIds)

\* Lines 246-280: select the current organization, check it, attach the context
Select(i) ==
    LET r == req[i]
        cur == SelectCurrent(r.hdr, r.primaryOrganizationId, r.organizationIds)
    IN
    /\ r.pc = "select"
    /\ req' = [req EXCEPT ![i] =
                 IF AccessDenied(cur, r.organizationIds)
                 THEN Reply(r, 403)
                 ELSE [r EXCEPT !.attached = TRUE, !.currentOrganizationId = cur,
                                !.pc = "handler"]]
    /\ UNCHANGED <<store, started, adminOps, seed>>

\* ------------------------------------------------------ route handlers
\* organizations: { some: { organizationId: { in: organizationIds }, status: 'active' } }
AssignedWithin(rows, id, orgSet) ==
    \E row \in rows : row.id = id /\ row.organizationId \in orgSet /\ row.status = "active"

\* organizations: { some: { organizationId: X, status: 'active' } }; an undefined
\* X drops the organizationId condition from the query
AssignedTo(rows, id, organizationId) ==
    \E row \in rows :
        /\ row.id = id
        /\ row.status = "active"
        /\ (organizationId = NoOrg \/ row.organizationId = organizationId)

FreeIds(pool, used) == pool \ used
NextId(pool, used) == CHOOSE n \in FreeIds(pool, used) : \A m \in FreeIds(pool, used) : n <= m

Ok(r, code, body) == [r EXCEPT !.pc = "replied", !.status = code, !.body = body]
Wrote(r, code, body) == [r EXCEPT !.pc = "replied", !.status = code, !.body = body, !.wrote = TRUE]

\* patients.ts 25-92: GET /fhir/Patient
PatientSearchResult(r, pts, ptOrgs) ==
    {p \in pts : AssignedWithin(ptOrgs, p, Range(r.organizationIds))}

\* patients.ts 110-146 and 229-264: findFirst by id within organizationIds
PatientVisible(r, pts, ptOrgs) ==
    r.id \in pts /\ AssignedWithin(ptOrgs, r.id, Range(r.organizationIds))

\* part_001 25-80: GET /fhir/Practitioner
PractitionerFilter(r) == IF r.q = "organization" /\ r.qorg # NoOrg THEN r.qorg ELSE r.currentOrganizationId

PractitionerSearchResult(r, prs, prOrgs) ==
    {d \in prs : AssignedTo(prOrgs, d, PractitionerFilter(r))}

\* part_001 98-134 and 216-251: findFirst by id within organizationIds
PractitionerVisible(r, prs, prOrgs) ==
    r.id \in prs /\ AssignedWithin(prOrgs, r.id, Range(r.organizationIds))

\* part_001 1070-1119: GET /fhir/Organization
OrganizationSearchResult(r, orgs) ==
    IF Len(r.organizationIds) = 0 THEN {}
    ELSE {o \in Orgs : orgs[o].exists /\ o \in Range(r.organizationIds)}

\* A handler reached without request.user (the preHandler returned early on a
\* route that reads it) throws inside its try block and answers 500.
NeedsUser(route) == route \notin {"Health", "Docs"}

HandleRead(i) ==
    LET r == req[i] IN
    /\ r.pc = "handler"
    /\ r.route \in {"Health", "Docs", "PatientSearch", "PatientGet", "PractitionerSearch",
                    "PractitionerGet", "OrganizationSearch", "OrganizationGet"}
    /\ req' = [req EXCEPT ![i] =
         IF NeedsUser(r.route) /\ ~r.attached THEN Ok(r, 500, {})
         ELSE CASE r.route \in {"Health", "Docs"} -> Ok(r, 200, {})
           [] r.route = "PatientSearch" ->
                Ok(r, 200, PatientSearchResult(r, patients, patientOrgs))
           [] r.route = "PatientGet" ->
                IF PatientVisible(r, patients, patientOrgs) THEN Ok(r, 200, {r.id})
                ELSE Ok(r, 404, {})
           [] r.route = "PractitionerSearch" ->
                Ok(r, 200, PractitionerSearchResult(r, practitioners, practitionerOrgs))
           [] r.route = "PractitionerGet" ->
                IF PractitionerVisible(r, practitioners, practitionerOrgs) THEN Ok(r, 200, {r.id})
                ELSE Ok(r, 404, {})
           [] r.route = "OrganizationSearch" ->
                Ok(r, 200, OrganizationSearchResult(r, organizations))
           [] r.route = "OrganizationGet" ->
                IF r.id \notin Range(r.organizationIds) THEN Ok(r, 403, {})
                ELSE IF ~organizations[r.id].exists THEN Ok(r, 404, {})
                ELSE Ok(r, 200, {r.id})]
    /\ UNCHANGED <<store, started, adminOps, seed>>

\* patients.ts 172-197: POST /fhir/Patient.  The patient row is created first;
\* the assignment to an undefined currentOrganizationId is refused by the
\* store and the handler answers 500, the patient row staying behind.
PatientCreate(i) ==
    LET r == req[i]
        new == NextId(Patients, patients)
    IN
    /\ r.pc = "handler"
    /\ r.route = "PatientCreate"
    /\ IF ~r.attached
       THEN /\ req' = [req EXCEPT ![i] = Ok(r, 500, {})]
            /\ UNCHANGED <<patients, patientOrgs>>
       ELSE /\ FreeIds(Patients, patients) # {}
            /\ patients' = patients \cup {new}
            /\ IF r.currentOrganizationId # NoOrg
               THEN /\ patientOrgs' = patientOrgs \cup
                          {[id |-> new, organizationId |-> r.currentOrganizationId, status |-> "active"]}
                    /\ req' = [req EXCEPT ![i] = Wrote(r, 201, {new})]
               ELSE /\ patientOrgs' = patientOrgs
                    /\ req' = [req EXCEPT ![i] = Wrote(r, 500, {})]
    /\ UNCHANGED <<users, access, organizations, practitioners, practitionerOrgs, appointments,
                   started, adminOps, seed>>

\* part_001 159-185: POST /fhir/Practitioner.  The assignment is skipped when
\* there is no currentOrganizationId and the answer is 201 either way.
PractitionerCreate(i) ==
    LET r == req[i]
        new == NextId(Practitioners, practitioners)
    IN
    /\ r.pc = "handler"
    /\ r.route = "PractitionerCreate"
    /\ IF ~r.attached
       THEN /\ req' = [req EXCEPT ![i] = Ok(r, 500, {})]
            /\ UNCHANGED <<practitioners, practitionerOrgs>>
       ELSE /\ FreeIds(Practitioners, practitioners) # {}
            /\ practitioners' = practitioners \cup {new}
            /\ practitionerOrgs' =
                  IF r.currentOrganizationId # NoOrg
                  THEN practitionerOrgs \cup
                          {[id |-> new, organizationId |-> r.currentOrganizationId, status |-> "active"]}
                  ELSE practitionerOrgs
            /\ req' = [req EXCEPT ![i] = Wrote(r, 201, {new})]
    /\ UNCHANGED <<users, access, organizations, patients, patientOrgs, appointments,
                   started, adminOps, seed>>

\* patients.ts 229-264 and part_001 216-251: PUT by id, 404 outside the scope
HandleUpdate(i) ==
    LET r == req[i] IN
    /\ r.pc = "handler"
    /\ r.route \in {"PatientUpdate", "PractitionerUpdate"}
    /\ req' = [req EXCEPT ![i] =
         IF ~r.attached THEN Ok(r, 500, {})
         ELSE IF r.route = "PatientUpdate"
         THEN (IF PatientVisible(r, patients, patientOrgs) THEN Wrote(r, 200, {r.id})
               ELSE Ok(r, 404, {}))
         ELSE (IF PractitionerVisible(r, practitioners, practitionerOrgs) THEN Wrote(r, 200, {r.id})
               ELSE Ok(r, 404, {}))]
    /\ UNCHANGED <<store, started, adminOps, seed>>

\* part_001 1245-1286: POST /fhir/Organization, super_admin only
OrganizationCreate(i) ==
    LET r == req[i]
        existing == {o \in Orgs : organizations[o].exists}
        new == NextId(Orgs, existing)
    IN
    /\ r.pc = "handler"
    /\ r.route = "OrganizationCreate"
    /\ IF ~r.attached
       THEN /\ req' = [req EXCEPT ![i] = Ok(r, 500, {})]
            /\ UNCHANGED organizations
       ELSE IF r.role # "super_admin"
       THEN /\ req' = [req EXCEPT ![i] = Ok(r, 403, {})]
            /\ UNCHANGED organizations
       ELSE /\ FreeIds(Orgs, existing) # {}
            /\ organizations' = [organizations EXCEPT ![new] = [exists |-> TRUE, active |-> r.active]]
            /\ req' = [req EXCEPT ![i] = Wrote(r, 201, {new})]
    /\ UNCHANGED <<users, access, resources, started, adminOps, seed>>

\* part_001 1335-1390: PUT /fhir/Organization/:id, for a caller whose context
\* holds an admin entry for the organization
hasAdminAccess(organizationAccess, id) ==
    \E k \in 1..Len(organizationAccess) :
        /\ organizationAccess[k].organizationId = id
        /\ organizationAccess[k].role \in {"admin", "super_admin"}

OrganizationUpdate(i) ==
    LET r == req[i] IN
    /\ r.pc = "handler"
    /\ r.route = "OrganizationUpdate"
    /\ IF ~r.attached
       THEN /\ req' = [req EXCEPT ![i] = Ok(r, 500, {})]
            /\ UNCHANGED organizations
       ELSE IF ~hasAdminAccess(r.organizationAccess, r.id)
       THEN /\ req' = [req EXCEPT ![i] = Ok(r, 403, {})]
            /\ UNCHANGED organizations
       ELSE IF ~organizations[r.id].exists
       THEN /\ req' = [req EXCEPT ![i] = Ok(r, 500, {})]
            /\ UNCHANGED organizations
       ELSE /\ organizations' = [organizations EXCEPT ![r.id].active = r.active]
            /\ req' = [req EXCEPT ![i] = Wrote(r, 200, {r.id})]
    /\ UNCHANGED <<users, access, resources, started, adminOps, seed>>

\* patients.ts 290-313 and part_001 278-300: assign-organization up to the
\* findUnique of the (resource, organization) row
AssignRoutes == {"PatientAssign", "PractitionerAssign"}

AssignmentRows(route) == IF route = "PatientAssign" THEN patientOrgs ELSE practitionerOrgs

AssignmentExists(rows, id, organizationId) ==
    \E row \in rows : row.id = id /\ row.organizationId = organizationId

AssignCheck(i) ==
    LET r == req[i] IN
    /\ r.pc = "handler"
    /\ r.route \in AssignRoutes
    /\ req' = [req EXCEPT ![i] =
         IF ~r.attached THEN Ok(r, 500, {})
         ELSE IF r.organizationId \notin Range(r.organizationIds) THEN Ok(r, 403, {})
         ELSE IF AssignmentExists(AssignmentRows(r.route), r.id, r.organizationId)
         THEN Ok(r, 409, {})
         ELSE [r EXCEPT !.pc = "assign"]]
    /\ UNCHANGED <<store, started, adminOps, seed>>

\* patients.ts 316-332 and part_001 302-318: the create of the row.  The store
\* refuses a second (resource, organization) row and a row for a resource or
\* an organization that does not exist; the handler's catch answers 500.
AssignRefused(r) ==
    \/ AssignmentExists(AssignmentRows(r.route), r.id, r.organizationId)
    \/ ~organizations[r.organizationId].exists
    \/ r.id \notin (IF r.route = "PatientAssign" THEN patients ELSE practitioners)

AssignCreate(i) ==
    LET r == req[i]
        row == [id |-> r.id, organizationId |-> r.organizationId, status |-> "active"]
    IN
    /\ r.pc = "assign"
    /\ IF AssignRefused(r)
       THEN /\ req' = [req EXCEPT ![i] = Ok(r, 500, {})]
            /\ UNCHANGED <<patientOrgs, practitionerOrgs>>
       ELSE /\ req' = [req EXCEPT ![i] = Wrote(r, 201, {r.id})]
            /\ patientOrgs' = IF r.route = "PatientAssign" THEN patientOrgs \cup {row}
                              ELSE patientOrgs
            /\ practitionerOrgs' = IF r.route = "PractitionerAssign" THEN practitionerOrgs \cup {row}
                                   ELSE practitionerOrgs
    /\ UNCHANGED <<users, access, organizations, patients, practitioners, appointments,
                   started, adminOps, seed>>

\* appointments.ts 8-107: GET /fhir/Appointment and GET /fhir/Appointment/:id
AppointmentSearchResult(r, appts) ==
    {a.id : a \in {b \in appts : b.organizationId \in Range(r.organizationIds)}}

AppointmentVisible(r, appts) ==
    \E a \in appts : a.id = r.id /\ a.organizationId \in Range(r.organizationIds)

AppointmentRead(i) ==
    LET r == req[i] IN
    /\ r.pc = "handler"
    /\ r.route \in {"AppointmentSearch", "AppointmentGet"}
    /\ req' = [req EXCEPT ![i] =
         IF ~r.attached THEN Ok(r, 500, {})
         ELSE IF r.route = "AppointmentSearch"
         THEN Ok(r, 200, AppointmentSearchResult(r, appointments))
         ELSE IF AppointmentVisible(r, appointments) THEN Ok(r, 200, {r.id})
         ELSE Ok(r, 404, {})]
    /\ UNCHANGED <<store, started, adminOps, seed>>

\* appointments.ts 110-160: POST /fhir/Appointment.  The patient and the
\* practitioner are looked up within currentOrganizationId (an undefined one
\* drops the condition); the create without an organizationId is refused.
AppointmentCreate(i) ==
    LET r == req[i]
        used == {a.id : a \in appointments}
        new == NextId(Appointments, used)
    IN
    /\ r.pc = "handler"
    /\ r.route = "AppointmentCreate"
    /\ IF ~r.attached
       THEN /\ req' = [req EXCEPT ![i] = Ok(r, 500, {})]
            /\ UNCHANGED appointments
       ELSE IF \/ r.patientId \notin patients
               \/ ~AssignedTo(patientOrgs, r.patientId, r.currentOrganizationId)
               \/ r.practitionerId \notin practitioners
               \/ ~AssignedTo(practitionerOrgs, r.practitionerId, r.currentOrganizationId)
       THEN /\ req' = [req EXCEPT ![i] = Ok(r, 404, {})]
            /\ UNCHANGED appointments
       ELSE IF r.currentOrganizationId = NoOrg
       THEN /\ req' = [req EXCEPT ![i] = Ok(r, 500, {})]
            /\ UNCHANGED appointments
       ELSE /\ FreeIds(Appointments, used) # {}
            /\ appointments' = appointments \cup
                  {[id |-> new, patientId |-> r.patientId, practitionerId |-> r.practitionerId,
                    organizationId |-> r.currentOrganizationId, status |-> "booked"]}
            /\ req' = [req EXCEPT ![i] = Wrote(r, 201, {new})]
    /\ UNCHANGED <<users, access, organizations, patients, patientOrgs,
                   practitioners, practitionerOrgs, started, adminOps, seed>>

\* appointments.ts 163-235: PUT and DELETE /fhir/Appointment/:id, 404 outside
\* the scope; the cancel sets status 'cancelled' and answers 204
AppointmentWrite(i) ==
    LET r == req[i] IN
    /\ r.pc = "handler"
    /\ r.route \in {"AppointmentUpdate", "AppointmentCancel"}
    /\ IF ~r.attached
       THEN /\ req' = [req EXCEPT ![i] = Ok(r, 500, {})]
            /\ UNCHANGED appointments
       ELSE IF ~AppointmentVisible(r, appointments)
       THEN /\ req' = [req EXCEPT ![i] = Ok(r, 404, {})]
            /\ UNCHANGED appointments
       ELSE IF r.route = "AppointmentUpdate"
       THEN /\ req' = [req EXCEPT ![i] = Wrote(r, 200, {r.id})]
            /\ appointments' = {IF a.id = r.id THEN [a EXCEPT !.status = "fulfilled"] ELSE a
                                  : a \in appointments}
       ELSE /\ req' = [req EXCEPT ![i] = Wrote(r, 204, {})]
            /\ appointments' = {IF a.id = r.id THEN [a EXCEPT !.status = "cancelled"] ELSE a
                                  : a \in appointments}
    /\ UNCHANGED <<users, access, organizations, patients, patientOrgs,
                   practitioners, practitionerOrgs, started, adminOps, seed>>

\* part_001 538-640: POST /api/auth/login.  (The lastLogin column it updates is
\* not part of the state.)
Login(i) ==
    LET r == req[i]
        u == users[r.email]
    IN
    /\ r.pc = "handler"
    /\ r.route = "Login"
    /\ req' = [req EXCEPT ![i] =
         IF ~u.exists \/ ~u.active \/ ~r.password THEN Ok(r, 401, {})
         ELSE [Ok(r, 200, {}) EXCEPT !.token = Token(r.email, u.role)]]
    /\ UNCHANGED <<store, started, adminOps, seed>>

\* part_001 397-490: POST /api/auth/register.  The access row is created only
\* with an organizationId; a failure of that insert is logged and the answer
\* is 201 all the same.
Register(i) ==
    LET r == req[i]
        organizationKnown == r.organizationId \in Orgs /\ organizations[r.organizationId].exists
    IN
    /\ r.pc = "handler"
    /\ r.route = "Register"
    /\ IF users[r.email].exists
       THEN /\ req' = [req EXCEPT ![i] = Ok(r, 409, {})]
            /\ UNCHANGED <<users, access>>
       ELSE /\ users' = [users EXCEPT ![r.email] = UserRow(r.brole, r.organizationId)]
            /\ access' = IF organizationKnown
                         THEN access \cup RegisterAccess(r.email, r.brole, r.organizationId)
                         ELSE access
            /\ req' = [req EXCEPT ![i] =
                         [Wrote(r, 201, {}) EXCEPT
                             !.failed = r.organizationId # NoOrg /\ ~organizationKnown]]
    /\ UNCHANGED <<organizations, resources, started, adminOps, seed>>

\* part_001 660-694: POST /api/auth/refresh signs the context's id, email, role
Refresh(i) ==
    LET r == req[i] IN
    /\ r.pc = "handler"
    /\ r.route = "Refresh"
    /\ req' = [req EXCEPT ![i] =
         IF ~r.attached THEN Ok(r, 500, {})
         ELSE [Ok(r, 200, {}) EXCEPT !.token = Token(r.uid, r.role)]]
    /\ UNCHANGED <<store, started, adminOps, seed>>

\* a logout that revokes the caller's account
LogoutRevoking(i) ==
    LET r == req[i] IN
    /\ r.pc = "handler"
    /\ r.route = "Logout"
    /\ req' = [req EXCEPT ![i] = IF ~r.attached THEN Ok(r, 500, {}) ELSE Ok(r, 200, {})]
    /\ users' = IF r.attached THEN [users EXCEPT ![r.uid].active = FALSE] ELSE users
    /\ UNCHANGED <<access, organizations, resources, started, adminOps, seed>>

\* part_001 837-869: POST /api/auth/logout logs the user id and answers 200
Logout(i) ==
    LET r == req[i] IN
    /\ r.pc = "handler"
    /\ r.route = "Logout"
    /\ req' = [req EXCEPT ![i] = IF ~r.attached THEN Ok(r, 500, {}) ELSE Ok(r, 200, {})]
    /\ UNCHANGED <<store, started, adminOps, seed>>

\* a switch that stores the organization as the caller's primary organization
SwitchOrganizationPersisting(i) ==
    LET r == req[i]
        allowed == r.attached /\ r.organizationId \in Range(r.organizationIds)
    IN
    /\ r.pc = "handler"
    /\ r.route = "SwitchOrganization"
    /\ req' = [req EXCEPT ![i] =
         IF ~r.attached THEN Ok(r, 500, {})
         ELSE IF ~allowed THEN Ok(r, 403, {})
         ELSE Ok(r, 200, {r.organizationId})]
    /\ users' = IF allowed THEN [users EXCEPT ![r.uid].primaryOrganizationId = r.organizationId]
                ELSE users
    /\ UNCHANGED <<access, organizations, resources, started, adminOps, seed>>

\* part_001 971-1038: POST /api/user/switch-organization answers 403 unless the
\* organization is in organizationIds and 200 with the organization otherwise;
\* it makes no store call
SwitchOrganization(i) ==
    LET r == req[i] IN
    /\ r.pc = "handler"
    /\ r.route = "SwitchOrganization"
    /\ req' = [req EXCEPT ![i] =
         IF ~r.attached THEN Ok(r, 500, {})
         ELSE IF r.organizationId \notin Range(r.organizationIds) THEN Ok(r, 403, {})
         ELSE Ok(r, 200, {r.organizationId})]
    /\ UNCHANGED <<store, started, adminOps, seed>>

\* the reply has been sent and the request object is dropped
Close(i) ==
    /\ req[i].pc = "replied"
    /\ req' = [req EXCEPT ![i] = Idle]
    /\ UNCHANGED <<store, started, adminOps, seed>>

\* ------------------------------------------- administrative store changes
Quiet == \A i \in Reqs : req[i].pc = "idle"

\* user_organization_access.status set to inactive or suspended
AdminSetStatus(u, o, status) ==
    /\ Quiet
    /\ adminOps < MaxAdminOps
    /\ RowsOf(access, u, o) # {}
    /\ \A row \in RowsOf(access, u, o) : row.status # status
    /\ access' = {IF row \in RowsOf(access, u, o) THEN [row EXCEPT !.status = status] ELSE row
                    : row \in access}
    /\ adminOps' = adminOps + 1
    /\ UNCHANGED <<users, organizations, resources, req, started, seed>>

\* users.active set to false
AdminDeactivateUser(u) ==
    /\ Quiet
    /\ adminOps < MaxAdminOps
    /\ users[u].exists /\ users[u].active
    /\ users' = [users EXCEPT ![u].active = FALSE]
    /\ adminOps' = adminOps + 1
    /\ UNCHANGED <<access, organizations, resources, req, started, seed>>

\* the users row deleted; its access rows go with it (onDelete: Cascade)
AdminDeleteUser(u) ==
    /\ Quiet
    /\ adminOps < MaxAdminOps
    /\ users[u].exists
    /\ users' = [users EXCEPT ![u] = NoRow]
    /\ access' = {row \in access : row.userId # u}
    /\ adminOps' = adminOps + 1
    /\ UNCHANGED <<organizations, resources, req, started, seed>>

\* an access row granted or removed in the database
AdminGrantAccess(u, o) ==
    /\ Quiet
    /\ adminOps < MaxAdminOps
    /\ users[u].exists /\ organizations[o].exists
    /\ ~UniqueViolation(access, u, o)
    /\ access' = access \cup {AccessRow(u, o, RegisterRole(users[u].role), "active", 0)}
    /\ adminOps' = adminOps + 1
    /\ UNCHANGED <<users, organizations, resources, req, started, seed>>

AdminRemoveAccess(u, o) ==
    /\ Quiet
    /\ adminOps < MaxAdminOps
    /\ RowsOf(access, u, o) # {}
    /\ access' = access \ RowsOf(access, u, o)
    /\ adminOps' = adminOps + 1
    /\ UNCHANGED <<users, organizations, resources, req, started, seed>>

\* ------------------------------------------------------------ requests
\* the requests a client sends, one at a time
RequestShapes ==
    {s \in [route : Routes, id : 0..MaxOrgs, q : Queries, qorg : {NoOrg} \cup Orgs, active : BOOLEAN] :
        /\ (s.route \in IdRoutes) = (s.id # 0)
        /\ s.route = "OrganizationGet" => s.id \in Orgs
        /\ s.route \in {"PatientGet", "PatientUpdate"} => s.id \in Patients
        /\ s.route \in {"PractitionerGet", "PractitionerUpdate"} => s.id \in Practitioners
        /\ (s.q = "organization") = (s.qorg # NoOrg)
        /\ s.q = "organization" => s.route = "PractitionerSearch"
        /\ s.q = "docs" => s.route \in {"PatientSearch", "PatientGet", "OrganizationSearch"}
        /\ s.route # "OrganizationCreate" => s.active}

\* the requests with a body, and those to the auth, assign-organization and
\* appointment routes
Body(route) ==
    [route |-> route, id |-> 0, q |-> "none", active |-> TRUE, email |-> NoUser,
     password |-> FALSE, brole |-> "none", organizationId |-> NoOrg,
     patientId |-> 0, practitionerId |-> 0]

RegisterRoles == {"super_admin", "org_admin", "practitioner", "staff", "readonly"}

AuthBodies ==
    {Body("Docs"), Body("Refresh"), Body("Logout")}
    \cup {[Body("Login") EXCEPT !.email = e, !.password = p] : e \in UserIds, p \in BOOLEAN}
    \cup {[Body("Register") EXCEPT !.email = e, !.brole = ro, !.organizationId = o] :
              e \in {"B", "C"}, ro \in RegisterRoles, o \in {NoOrg} \cup Orgs}

OrganizationBodies ==
    {[Body("OrganizationUpdate") EXCEPT !.id = o, !.active = a] : o \in Orgs, a \in BOOLEAN}

AssignBodies ==
    {[Body("PatientAssign") EXCEPT !.id = p, !.organizationId = o] : p \in Patients, o \in Orgs}
    \cup {[Body("PractitionerAssign") EXCEPT !.id = d, !.organizationId = o] :
              d \in Practitioners, o \in Orgs}

AppointmentBodies ==
    {Body("AppointmentSearch")}
    \cup {[Body(route) EXCEPT !.id = a] :
              route \in {"AppointmentGet", "AppointmentUpdate", "AppointmentCancel"},
              a \in Appointments}
    \cup {[Body("AppointmentCreate") EXCEPT !.patientId = p, !.practitionerId = d] :
              p \in Patients, d \in Practitioners}

\* one client sending requests of the given shapes, one at a time
ReceiveSeq(bodies) ==
    /\ Quiet
    /\ \E auth \in Auths, hdr \in {NoOrg} \cup Orgs, s \in bodies :
          /\ auth \in BadAuth => hdr = NoOrg
          /\ ReceiveBody(1, auth, hdr, s)

ReceiveOne ==
    /\ Quiet
    /\ \E auth \in Auths, s \in RequestShapes, hdr \in {NoOrg} \cup Orgs :
          /\ auth \in BadAuth => hdr = NoOrg
          /\ Receive(1, auth, s.route, s.id, s.q, s.qorg, s.active, hdr)

Resolve == \E i \in Reqs : LoadUser(i) \/ Enumerate(i) \/ InsertAccess(i) \/ SetPrimary(i) \/ Select(i)

Handle ==
    \E i \in Reqs :
        \/ HandleRead(i)
        \/ PatientCreate(i)
        \/ PractitionerCreate(i)
        \/ HandleUpdate(i)
        \/ OrganizationCreate(i)
        \/ Close(i)

Admin ==
    \E u \in UserIds :
        \/ \E o \in Orgs, status \in {"inactive", "suspended"} : AdminSetStatus(u, o, status)
        \/ AdminDeactivateUser(u)
        \/ AdminDeleteUser(u)

Next == ReceiveOne \/ Resolve \/ Handle \/ Admin

Spec == Init /\ [][Next]_vars

\* ---------------------------------------- access resolution on its own
\* The same server restricted to the requests that read and create
\* organizations: everything the resolver reads (users, access rows,
\* organizations, headers) changes as in Spec.
ReceiveAccess ==
    /\ Quiet
    /\ \E auth \in Auths, route \in {"OrganizationSearch", "OrganizationCreate"},
          q \in {"none", "docs"}, active \in BOOLEAN, hdr \in {NoOrg} \cup Orgs :
          /\ auth \in BadAuth => hdr = NoOrg
          /\ route = "OrganizationSearch" => active
          /\ q = "docs" => route = "OrganizationSearch"
          /\ Receive(1, auth, route, 0, q, NoOrg, active, hdr)

AnswerAccess == \E i \in Reqs : HandleRead(i) \/ OrganizationCreate(i) \/ Close(i)

NextAccess == ReceiveAccess \/ Resolve \/ AnswerAccess \/ Admin

SpecAccess == Init /\ [][NextAccess]_vars

\* ------------------------------------------- public and auth routes
\* One client using the health check, the generated docs and the routes under
\* /api/auth, with any Authorization and x-organization-id header.
ReceiveAuth == ReceiveSeq(AuthBodies \cup {Body("Health")})

AnswerAuth ==
    \E i \in Reqs :
        HandleRead(i) \/ Login(i) \/ Register(i) \/ Refresh(i) \/ Logout(i) \/ Close(i)

NextAuth == ReceiveAuth \/ Resolve \/ AnswerAuth

SpecAuth == Init /\ [][NextAuth]_vars

AdminAccess ==
    \E u \in UserIds, o \in Orgs :
        \/ AdminGrantAccess(u, o)
        \/ AdminRemoveAccess(u, o)

\* ---------------------------------------------------- organization writes
OrganizationWriteBodies ==
    OrganizationBodies
    \cup {[Body("OrganizationCreate") EXCEPT !.active = a] : a \in BOOLEAN}

AnswerOrganizationWrite ==
    \E i \in Reqs : OrganizationCreate(i) \/ OrganizationUpdate(i) \/ Close(i)

\* -------------------------------------------------------- requests by id
ByIdBodies ==
    OrganizationBodies
    \cup {[Body("OrganizationGet") EXCEPT !.id = o] : o \in Orgs}
    \cup {[Body(route) EXCEPT !.id = p] : route \in {"PatientGet", "PatientUpdate"}, p \in Patients}
    \cup {[Body(route) EXCEPT !.id = d] :
              route \in {"PractitionerGet", "PractitionerUpdate"}, d \in Practitioners}
    \cup {[Body(route) EXCEPT !.id = a] :
              route \in {"AppointmentGet", "AppointmentUpdate", "AppointmentCancel"},
              a \in Appointments}

ReceiveById == ReceiveSeq(ByIdBodies)

AnswerById ==
    \E i \in Reqs :
        \/ HandleRead(i)
        \/ HandleUpdate(i)
        \/ OrganizationUpdate(i)
        \/ AppointmentRead(i)
        \/ AppointmentWrite(i)
        \/ Close(i)

NextById == ReceiveById \/ Resolve \/ AnswerById

SpecById == Init /\ [][NextById]_vars

\* ------------------------------------------------------ resource creates
CreateBodies ==
    {Body("PatientCreate"), Body("PractitionerCreate")}
    \cup {[Body("AppointmentCreate") EXCEPT !.patientId = p, !.practitionerId = d] :
              p \in Patients, d \in Practitioners}

ReceiveCreate == ReceiveSeq(CreateBodies)

AnswerCreate ==
    \E i \in Reqs :
        PatientCreate(i) \/ PractitionerCreate(i) \/ AppointmentCreate(i) \/ Close(i)

NextCreate == ReceiveCreate \/ Resolve \/ AnswerCreate

SpecCreate == Init /\ [][NextCreate]_vars

\* --------------------------------------- tokens and membership changes
\* Tokens are issued by login and refresh and used on an organization-scoped
\* route while memberships are granted, suspended and removed in between.
TokenBodies ==
    {Body("Refresh"), Body("OrganizationSearch")}
    \cup {[Body("Login") EXCEPT !.email = e, !.password = p] : e \in UserIds, p \in BOOLEAN}

ReceiveTokens == ReceiveSeq(TokenBodies)

AnswerTokens == \E i \in Reqs : HandleRead(i) \/ Login(i) \/ Refresh(i) \/ Close(i)

NextTokens == ReceiveTokens \/ Resolve \/ AnswerTokens \/ Admin \/ AdminAccess

SpecTokens == Init /\ [][NextTokens]_vars

\* ------------------------------------- concurrent first resolutions
\* Several requests of the platform administrator, who holds no active
\* membership yet, are in flight at once.
InitRace == Init /\ access = {}

ReceiveRace ==
    \E i \in Reqs : Receive(i, "A", "OrganizationSearch", 0, "none", NoOrg, TRUE, NoOrg)

Answer == \E i \in Reqs : HandleRead(i)

NextRace == ReceiveRace \/ Resolve \/ Answer

SpecRace == InitRace /\ [][NextRace]_vars

\* ------------------------------------------- concurrent assignments
\* assign-organization requests of the registered users, in flight together
ReceiveAssign ==
    \E i \in Reqs, auth \in {"A", "B"}, s \in AssignBodies : ReceiveBody(i, auth, NoOrg, s)

AnswerAssign == \E i \in Reqs : AssignCheck(i) \/ AssignCreate(i) \/ Close(i)

NextAssign == ReceiveAssign \/ Resolve \/ AnswerAssign

SpecAssign == Init /\ [][NextAssign]_vars

\* ----------------------------------------------- a session of one caller
\* One caller sends a request, reads the answer and sends the next one with
\* the same token; slot k holds the k-th request of the session.
Answered(i) == req[i].pc = "replied"

ReceiveNext(i, hdr, s) ==
    /\ i # 1
    /\ Answered(i - 1)
    /\ ReceiveBody(i, req[i - 1].auth, hdr, s)

\* create a resource, then assign it explicitly
ReceiveCreateThenAssign ==
    \/ \E auth \in UserIds, hdr \in {NoOrg} \cup Orgs,
          s \in {Body("PatientCreate"), Body("PractitionerCreate")} : ReceiveBody(1, auth, hdr, s)
    \/ \E i \in Reqs, hdr \in {NoOrg} \cup Orgs, s \in AssignBodies : ReceiveNext(i, hdr, s)

AnswerCreateThenAssign ==
    \E i \in Reqs :
        PatientCreate(i) \/ PractitionerCreate(i) \/ AssignCheck(i) \/ AssignCreate(i)

NextCreateThenAssign == ReceiveCreateThenAssign \/ Resolve \/ AnswerCreateThenAssign

SpecCreateThenAssign == Init /\ [][NextCreateThenAssign]_vars

\* log out, then use the token again with the same x-organization-id
LaterBodies ==
    {Body("Logout"), Body("OrganizationSearch")}
    \cup {[Body("AppointmentCancel") EXCEPT !.id = a] : a \in Appointments}

ReceiveLogoutThenUse ==
    \/ \E auth \in Auths, hdr \in {NoOrg} \cup Orgs :
          /\ auth \in BadAuth => hdr = NoOrg
          /\ ReceiveBody(1, auth, hdr, Body("Logout"))
    \/ \E i \in Reqs \ {1}, s \in LaterBodies : ReceiveNext(i, req[i - 1].hdr, s)

AnswerLogoutThenUse == \E i \in Reqs : Logout(i) \/ HandleRead(i) \/ AppointmentWrite(i)

NextLogoutThenUse == ReceiveLogoutThenUse \/ Resolve \/ AnswerLogoutThenUse

SpecLogoutThenUse == Init /\ [][NextLogoutThenUse]_vars

\* switch the organization, then send the next request with the same headers
SwitchBodies == {[Body("SwitchOrganization") EXCEPT !.organizationId = o] : o \in Orgs}

ReceiveSwitchThenUse ==
    \/ \E auth \in Auths, hdr \in {NoOrg} \cup Orgs, s \in SwitchBodies :
          /\ auth \in BadAuth => hdr = NoOrg
          /\ ReceiveBody(1, auth, hdr, s)
    \/ \E i \in Reqs \ {1} : ReceiveNext(i, req[i - 1].hdr, Body("OrganizationSearch"))

AnswerSwitchThenUse == \E i \in Reqs : SwitchOrganization(i) \/ HandleRead(i)

NextSwitchThenUse == ReceiveSwitchThenUse \/ Resolve \/ AnswerSwitchThenUse

SpecSwitchThenUse == Init /\ [][NextSwitchThenUse]_vars

\* one caller resolved twice, nothing else touching the store in between
ReceiveTwice ==
    \/ \E auth \in UserIds : ReceiveBody(1, auth, NoOrg, Body("OrganizationSearch"))
    \/ \E i \in Reqs \ {1} : ReceiveNext(i, NoOrg, Body("OrganizationSearch"))

NextTwice == ReceiveTwice \/ Resolve \/ Answer \/ Admin

SpecTwice == Init /\ [][NextTwice]_vars

\* the same first requests, each naming an organization or none
ReceiveRaceHeader ==
    \E i \in Reqs, hdr \in {NoOrg} \cup Orgs :
        Receive(i, "A", "OrganizationSearch", 0, "none", NoOrg, TRUE, hdr)

NextRaceHeader == ReceiveRaceHeader \/ Resolve \/ Answer

SpecRaceHeader == InitRace /\ [][NextRaceHeader]_vars

\* ------------------------------------------------- a run of the seed script
\* part_000 14-149 on a database that was seeded before: the admin and the
\* organizations are found, the admin's access rows are deleted and created
\* again one by one, the primary organization is set.  Nothing is caught: a
\* create that the unique index refuses ends the script with exit code 1.
\* (The rest of the script looks every row up before creating it and finds
\* them all.)
SeedAdmin == "A"

SeedBegin ==
    /\ seed.pc = "idle"
    /\ users[SeedAdmin].exists
    /\ seed' = [pc |-> "delete", idx |-> 0]
    /\ UNCHANGED <<store, req, started, adminOps>>

SeedDeleteAccess ==
    /\ seed.pc = "delete"
    /\ access' = {row \in access : row.userId # SeedAdmin}
    /\ seed' = [pc |-> "create", idx |-> 1]
    /\ UNCHANGED <<users, organizations, resources, req, started, adminOps>>

SeedCreateAccess ==
    /\ seed.pc = "create"
    /\ IF UniqueViolation(access, SeedAdmin, seed.idx)
       THEN /\ seed' = [seed EXCEPT !.pc = "failed"]
            /\ UNCHANGED access
       ELSE /\ access' = access \cup SeedAccess(SeedAdmin, {seed.idx})
            /\ seed' = IF seed.idx = Cardinality(SeedOrgs)
                       THEN [seed EXCEPT !.pc = "primary"]
                       ELSE [seed EXCEPT !.idx = seed.idx + 1]
    /\ UNCHANGED <<users, organizations, resources, req, started, adminOps>>

SeedSetPrimary ==
    /\ seed.pc = "primary"
    /\ users' = [users EXCEPT ![SeedAdmin].primaryOrganizationId = 1]
    /\ seed' = [seed EXCEPT !.pc = "done"]
    /\ UNCHANGED <<access, organizations, resources, req, started, adminOps>>

SeedRun == SeedBegin \/ SeedDeleteAccess \/ SeedCreateAccess \/ SeedSetPrimary

\* the seeded admin sends requests while the script runs
InitSeeded == Init /\ SeedAccess(SeedAdmin, SeedOrgs) \subseteq access

ReceiveSeeded ==
    \E i \in Reqs : Receive(i, SeedAdmin, "OrganizationSearch", 0, "none", NoOrg, TRUE, NoOrg)

NextSeeded == ReceiveSeeded \/ Resolve \/ Answer \/ SeedRun

SpecSeeded == InitSeeded /\ [][NextSeeded]_vars

\* ------------------------------------------- store failures in self-heal
\* Lines 179-243 with a store call that throws for a reason of its own (lost
\* connection, timeout).  organization.findMany and user.update throw into
\* the outer catch, which leaves organizationIds as loaded; a create throws
\* into the catch of the loop, which goes on with the next organization.
EnumerateFails(i) ==
    LET r == req[i] IN
    /\ r.pc = "enumerate"
    /\ req' = [req EXCEPT ![i] = [r EXCEPT !.failed = TRUE, !.pc = "select"]]
    /\ UNCHANGED <<store, started, adminOps, seed>>

InsertFails(i) ==
    LET r == req[i] IN
    /\ r.pc = "insert"
    /\ req' = [req EXCEPT ![i] =
                 [r EXCEPT !.idx = r.idx + 1, !.failed = TRUE,
                           !.pc = IF r.idx = Len(r.allOrganizations) THEN "primary" ELSE "insert"]]
    /\ UNCHANGED <<store, started, adminOps, seed>>

SetPrimaryFails(i) ==
    LET r == req[i] IN
    /\ r.pc = "primary"
    /\ r.primaryOrganizationId = NoOrg /\ Len(r.allOrganizations) > 0
    /\ req' = [req EXCEPT ![i] = [r EXCEPT !.failed = TRUE, !.pc = "select"]]
    /\ UNCHANGED <<store, started, adminOps, seed>>

\* concurrent first requests of the platform administrator while store calls
\* of self-heal may fail
ReceiveFaults ==
    \E i \in Reqs, hdr \in {NoOrg, 1} :
        Receive(i, "A", "OrganizationSearch", 0, "none", NoOrg, TRUE, hdr)

Fail == \E i \in Reqs : EnumerateFails(i) \/ InsertFails(i) \/ SetPrimaryFails(i)

NextFaults == ReceiveFaults \/ Resolve \/ Fail \/ Answer

SpecFaults == InitRace /\ [][NextFaults]_vars

\* organization writes of one client, with store calls of the self-heal failing
ReceiveOrganizationWrite == ReceiveSeq(OrganizationWriteBodies)

NextOrganizationWrite == ReceiveOrganizationWrite \/ Resolve \/ Fail \/ AnswerOrganizationWrite

SpecOrganizationWrite == Init /\ [][NextOrganizationWrite]_vars

\* ------------------------------------------------------------- claims
ResolverDone(r) == r.pc \in {"handler", "replied"}

\* C1: whenever the preHandler attaches request.user with a non-empty
\* organizationIds, the attached currentOrganizationId is one of them.
C1_CurrentInOrganizationIds ==
    \A i \in Reqs :
        (req[i].attached /\ Len(req[i].organizationIds) > 0)
            => req[i].currentOrganizationId \in Range(req[i].organizationIds)

\* C1 witness: a request is let through with a header that differs from the
\* caller's primary organization.
C1_Witness ==
    \E i \in Reqs :
        /\ req[i].attached
        /\ req[i].hdr # NoOrg
        /\ req[i].primaryOrganizationId # NoOrg
        /\ req[i].hdr # req[i].primaryOrganizationId
        /\ req[i].currentOrganizationId = req[i].hdr

\* C6: concurrent first resolutions of one super-admin leave at most one access
\* row per (userId, organizationId), exactly one for every organization a
\* finished self-heal enumerated, and a request whose insert lost the race is
\* answered as if it had won.
C6_OneRowPerOrganization ==
    /\ \A u \in UserIds, o \in Orgs : Cardinality(RowsOf(access, u, o)) <= 1
    /\ \A i \in Reqs :
          (req[i].healed /\ ResolverDone(req[i]))
              => \A o \in Range(req[i].allOrganizations) :
                    Cardinality(RowsOf(access, req[i].uid, o)) = 1
    /\ \A i \in Reqs :
          (req[i].absorbed > 0 /\ ResolverDone(req[i]))
              => /\ req[i].attached
                 /\ req[i].pc = "replied" => req[i].status = 200

\* C6 witness: every request has been answered and one of them absorbed a
\* uniqueness conflict on each of its inserts.
C6_Witness ==
    /\ \A i \in Reqs : req[i].pc = "replied" /\ req[i].status = 200
    /\ \E i \in Reqs : req[i].absorbed = Len(req[i].allOrganizations) /\ req[i].absorbed > 1

\* C2: a header naming an organization in which the caller holds no active
\* membership gets 403 and the route handler does not run.
C2_ForeignHeaderForbidden ==
    \A i \in Reqs :
        LET r == req[i] IN
        (/\ ResolverDone(r)
         /\ r.auth \in UserIds
         /\ users[r.auth].exists /\ users[r.auth].active
         /\ r.hdr # NoOrg
         /\ r.hdr \notin ActiveOrgsOf(access, r.auth))
            => (r.pc = "replied" /\ r.status = 403)

\* C3: every resource a search or a get-by-id returns is actively assigned to
\* an organization of the caller's organizationIds.
ReadRoutes == {"PatientSearch", "PatientGet", "PractitionerSearch", "PractitionerGet",
               "OrganizationSearch", "OrganizationGet"}

InScope(r, id) ==
    CASE r.route \in {"PatientSearch", "PatientGet"} ->
            AssignedWithin(patientOrgs, id, Range(r.organizationIds))
      [] r.route \in {"PractitionerSearch", "PractitionerGet"} ->
            AssignedWithin(practitionerOrgs, id, Range(r.organizationIds))
      [] r.route \in {"OrganizationSearch", "OrganizationGet"} ->
            id \in Range(r.organizationIds)

C3_TenantIsolation ==
    \A i \in Reqs :
        (req[i].pc = "replied" /\ req[i].route \in ReadRoutes /\ req[i].status = 200)
            => \A id \in req[i].body : InScope(req[i], id)

\* C4: the organizationIds attached for a super-admin contains every active
\* organization, whatever memberships the super-admin already held.
C4_SuperAdminCoversActiveOrganizations ==
    \A i \in Reqs :
        (req[i].pc = "handler" /\ req[i].attached /\ req[i].role = "super_admin")
            => ActiveOrganizations(organizations) \subseteq Range(req[i].organizationIds)

\* C5: one self-heal pass of a super-admin without active memberships yields
\* organizationIds equal to the active organizations, leaves an active admin
\* row for each of them, and sets an unset primaryOrganizationId to the first
\* enumerated organization, which is also the current one without a header.
C5_SelfHealProvisions ==
    \A i \in Reqs :
        LET r == req[i] IN
        (r.pc = "handler" /\ r.healed)
            => /\ Range(r.organizationIds) = ActiveOrganizations(organizations)
               /\ \A o \in ActiveOrganizations(organizations) :
                     \E row \in RowsOf(access, r.uid, o) :
                         row.status = "active" /\ row.role = "admin"
               /\ (r.primaryOrganizationId = NoOrg /\ Len(r.allOrganizations) > 0)
                     => users[r.uid].primaryOrganizationId = r.allOrganizations[1]
               /\ (r.primaryOrganizationId = NoOrg /\ r.hdr = NoOrg /\ Len(r.allOrganizations) > 0)
                     => r.currentOrganizationId = r.allOrganizations[1]

\* C7: an identity that is no super-admin and holds no active membership gets
\* no resource back from an organization-scoped route and writes none.
ScopedRoutes == Routes \ {"Health"}

C7_NoScopeNoSuccess ==
    \A i \in Reqs :
        LET r == req[i] IN
        (/\ r.pc = "replied"
         /\ r.route \in ScopedRoutes
         /\ r.auth \in UserIds
         /\ users[r.auth].exists
         /\ users[r.auth].role # "super_admin"
         /\ ActiveOrgsOf(access, r.auth) = {})
            => /\ ~r.wrote
               /\ r.status # 201
               /\ r.status = 200 => r.body = {}

\* C8: an organization in which the caller's access row is inactive or
\* suspended is never in the attached organizationIds, and a request naming it
\* in x-organization-id is not let through.
NotActiveIn(acc, u, o) == \E row \in RowsOf(acc, u, o) : row.status # "active"

C8_OnlyActiveMembershipsCount ==
    \A i \in Reqs :
        LET r == req[i] IN
        (r.pc = "handler" /\ r.attached)
            => /\ \A o \in Range(r.organizationIds) : ~NotActiveIn(access, r.uid, o)
               /\ r.hdr # NoOrg => ~NotActiveIn(access, r.uid, r.hdr)

\* C9: a request to a non-public route without a usable token is answered 401
\* and its handler does not run.
C9_Unauthenticated401 ==
    \A i \in Reqs :
        (req[i].pc # "idle" /\ req[i].route \in ScopedRoutes /\ req[i].auth \in BadAuth)
            => (req[i].pc = "replied" /\ req[i].status = 401)

\* C10: a valid token whose user row is missing or inactive is answered 401 on
\* every non-public route.
C10_UnknownOrInactiveIdentity401 ==
    \A i \in Reqs :
        LET r == req[i] IN
        (/\ ResolverDone(r)
         /\ r.route \in ScopedRoutes
         /\ r.auth \in UserIds
         /\ (~users[r.auth].exists \/ ~users[r.auth].active))
            => (r.pc = "replied" /\ r.status = 401)

\* C11: a request to a public route (health, docs, login, register) is passed
\* to its handler by the allow-list test alone, whatever headers it carries:
\* no token is looked at, no user is looked up, nothing is enumerated or
\* inserted and no context is attached.
PublicRouteNames == {"Health", "Docs", "Login", "Register"}

C11_PublicRoutesBypass ==
    \A i \in Reqs :
        LET r == req[i] IN
        (r.pc # "idle" /\ r.route \in PublicRouteNames)
            => /\ r.bypass
               /\ r.pc \in {"handler", "replied"}
               /\ r.uid = NoUser
               /\ ~r.attached /\ ~r.healed
               /\ r.organizationIds = <<>> /\ r.allOrganizations = <<>>

\* C11 witness: a login carrying an unusable Authorization header is answered
\* 200 with a token.
C11_Witness ==
    \E i \in Reqs :
        /\ req[i].route = "Login"
        /\ req[i].auth \in BadAuth
        /\ req[i].pc = "replied" /\ req[i].status = 200
        /\ req[i].token # NoToken

\* C12: the current organization is the x-organization-id header when there is
\* one, else the loaded primaryOrganizationId when it is set, else the first
\* element of organizationIds; it is undefined exactly when all three are
\* absent, and a request refused by the consistency check was refused for its
\* highest-priority candidate, not for a lower one.
C12_SelectionPriority ==
    \A i \in Reqs :
        LET r == req[i] IN
        /\ r.attached =>
              /\ r.hdr # NoOrg => r.currentOrganizationId = r.hdr
              /\ (r.hdr = NoOrg /\ r.primaryOrganizationId # NoOrg)
                    => r.currentOrganizationId = r.primaryOrganizationId
              /\ (r.hdr = NoOrg /\ r.primaryOrganizationId = NoOrg /\ Len(r.organizationIds) > 0)
                    => r.currentOrganizationId = r.organizationIds[1]
              /\ (r.currentOrganizationId = NoOrg)
                    <=> (r.hdr = NoOrg /\ r.primaryOrganizationId = NoOrg
                            /\ Len(r.organizationIds) = 0)
        /\ (r.pc = "replied" /\ r.status = 403 /\ ~r.attached)
              => /\ r.hdr # NoOrg => r.hdr \notin Range(r.organizationIds)
                 /\ r.hdr = NoOrg => /\ r.primaryOrganizationId # NoOrg
                                     /\ r.primaryOrganizationId \notin Range(r.organizationIds)

\* C12 witness: with no header and no primary organization the first element
\* of a two-element organizationIds became the current organization.
C12_Witness ==
    \E i \in Reqs :
        /\ req[i].attached
        /\ req[i].hdr = NoOrg /\ req[i].primaryOrganizationId = NoOrg
        /\ Len(req[i].organizationIds) > 1
        /\ req[i].currentOrganizationId = req[i].organizationIds[1]

\* C13: a request whose self-heal met a failing store call or a uniqueness
\* conflict is not answered 401 or 500, goes on to the selection of the
\* current organization, and is not refused for an organization in which the
\* super-admin holds an active access row.
C13_SelfHealFailureSwallowed ==
    \A i \in Reqs :
        LET r == req[i]
            candidate == SelectCurrent(r.hdr, r.primaryOrganizationId, r.organizationIds)
        IN
        (r.failed \/ r.absorbed > 0)
            => /\ r.pc \in {"insert", "primary", "select", "handler", "replied"}
               /\ r.pc = "replied" => r.status \notin {401, 500}
               /\ (r.pc = "replied" /\ r.status = 403)
                     => candidate \notin ActiveOrgsOf(access, r.uid)

CreatedIn(r) ==
    CASE r.route = "PatientCreate" ->
            {row.organizationId : row \in {x \in patientOrgs : x.id \in r.body}}
      [] r.route = "PractitionerCreate" ->
            {row.organizationId : row \in {x \in practitionerOrgs : x.id \in r.body}}
      [] OTHER ->
            {a.organizationId : a \in {x \in appointments : x.id \in r.body}}

C15_CreateAssignsCurrent ==
    \A i \in Reqs :
        LET r == req[i] IN
        (/\ r.pc = "replied"
         /\ r.route \in {"PatientCreate", "PractitionerCreate", "AppointmentCreate"}
         /\ r.status = 201)
            => /\ r.currentOrganizationId \in Range(r.organizationIds)
               /\ CreatedIn(r) = {r.currentOrganizationId}

\* C16: POST /fhir/Organization writes only for a caller whose user row has
\* role super_admin, PUT /fhir/Organization/:id only for a caller whose access
\* row for that organization has role admin or super_admin; a caller without
\* that role who reaches the handler is answered 403, and nothing is written.
MayWriteOrganization(r) ==
    IF r.route = "OrganizationCreate"
    THEN r.uid \in UserIds /\ users[r.uid].exists /\ users[r.uid].role = "super_admin"
    ELSE \E row \in access :
            /\ row.userId = r.uid
            /\ row.organizationId = r.id
            /\ row.role \in {"admin", "super_admin"}

C16_RoleGating ==
    \A i \in Reqs :
        LET r == req[i] IN
        (r.pc = "replied" /\ r.route \in {"OrganizationCreate", "OrganizationUpdate"})
            => /\ r.wrote => (MayWriteOrganization(r) /\ r.status \in {200, 201})
               /\ ~MayWriteOrganization(r) => ~r.wrote
               /\ (r.attached /\ ~MayWriteOrganization(r)) => r.status = 403

\* C17: a get, update or cancel by id whose target is absent or lies outside
\* the caller's organizationIds is answered 404 and writes nothing.
ByIdRoutes == {r.route : r \in ByIdBodies}

TargetInScope(r) ==
    CASE r.route \in {"PatientGet", "PatientUpdate"} ->
            r.id \in patients /\ AssignedWithin(patientOrgs, r.id, Range(r.organizationIds))
      [] r.route \in {"PractitionerGet", "PractitionerUpdate"} ->
            r.id \in practitioners /\ AssignedWithin(practitionerOrgs, r.id, Range(r.organizationIds))
      [] r.route \in {"AppointmentGet", "AppointmentUpdate", "AppointmentCancel"} ->
            \E a \in appointments : a.id = r.id /\ a.organizationId \in Range(r.organizationIds)
      [] OTHER ->
            organizations[r.id].exists /\ r.id \in Range(r.organizationIds)

C17_OutOfScopeIsNotFound ==
    \A i \in Reqs :
        LET r == req[i] IN
        (r.pc = "replied" /\ r.attached /\ r.route \in ByIdRoutes /\ ~TargetInScope(r))
            => (r.status = 404 /\ ~r.wrote)

\* C18: an assign-organization request for a (resource, organization) pair
\* that is assigned is answered 409 unless it is the request that created the
\* row, and no two requests create the row of the same pair.
SameAssignment(r, t) ==
    r.route = t.route /\ r.id = t.id /\ r.organizationId = t.organizationId

C18_DuplicateAssignConflict ==
    \A i \in Reqs :
        LET r == req[i] IN
        (/\ r.pc = "replied" /\ r.route \in AssignRoutes /\ r.attached
         /\ r.organizationId \in Range(r.organizationIds)
         /\ AssignmentExists(AssignmentRows(r.route), r.id, r.organizationId))
            => /\ r.status \in {201, 409}
               /\ r.status = 201
                     => \A j \in Reqs \ {i} :
                           (req[j].pc = "replied" /\ SameAssignment(r, req[j]))
                               => req[j].status # 201

\* C19: after a create of a patient or a practitioner sent with
\* x-organization-id O was answered 201, the caller's next request, an
\* assign-organization of the created resource to O, is answered 201.
AssignOf(route) == IF route = "PatientCreate" THEN "PatientAssign" ELSE "PractitionerAssign"

C19_AssignAfterCreate ==
    \A i \in Reqs \ {1} :
        LET c == req[i - 1]
            r == req[i]
        IN
        (/\ Answered(i - 1) /\ c.route \in {"PatientCreate", "PractitionerCreate"}
         /\ c.status = 201 /\ c.hdr # NoOrg
         /\ Answered(i) /\ r.route = AssignOf(c.route)
         /\ r.id \in c.body /\ r.organizationId = c.hdr
         /\ r.attached /\ r.organizationId \in Range(r.organizationIds))
            => r.status = 201

\* C20: the logout handler writes nothing to the store, and after a logout
\* answered 200 the caller's next request with the same token and the same
\* x-organization-id is resolved as the logout request itself was: it is
\* not answered 401 or 403 and gets the same role, the same organizations
\* and the same current organization.
LogoutAnswers(i) ==
    req[i].route = "Logout" /\ req[i].pc = "handler" /\ req'[i].pc = "replied"

SameContext(r, t) ==
    /\ t.attached
    /\ t.uid = r.uid
    /\ t.role = r.role
    /\ Range(t.organizationIds) = Range(r.organizationIds)
    /\ t.currentOrganizationId = r.currentOrganizationId

AfterLogout ==
    \A i \in Reqs \ {1} :
        LET l == req[i - 1]
            r == req[i]
        IN
        (/\ Answered(i - 1) /\ l.route = "Logout" /\ l.status = 200
         /\ r.auth = l.auth /\ r.hdr = l.hdr /\ ResolverDone(r))
            => /\ SameContext(l, r)
               /\ Answered(i) => r.status \notin {401, 403, 500}

C21_RegistrationMembership ==
    \A i \in Reqs :
        LET r == req[i] IN
        (r.pc = "replied" /\ r.route = "Register" /\ r.status = 201)
            => /\ r.organizationId # NoOrg
                     => /\ r.organizationId \in ActiveOrgsOf(access, r.email)
                        /\ users[r.email].primaryOrganizationId \in ActiveOrgsOf(access, r.email)
               /\ r.organizationId = NoOrg
                     => {row \in access : row.userId = r.email} = {}

\* C22: outside the self-heal insert no store failure is absorbed: a
\* registration or a login during which a store call failed is answered with an
\* error status, never with a success.
C22_OnlySelfHealAbsorbs ==
    \A i \in Reqs :
        LET r == req[i] IN
        (r.pc = "replied" /\ r.route \in {"Register", "Login"} /\ r.failed)
            => r.status >= 400

\* C23: the access rows of a user that a registration has just created, and
\* those of a user whose request went through self-heal, have a role among
\* admin, practitioner, staff, readonly and a status among active, inactive,
\* suspended.
RowValuesOf(u) ==
    \A row \in access :
        row.userId = u => (row.role \in AccessRoles /\ row.status \in MemberStatus)

C23_AccessRowValues ==
    \A i \in Reqs :
        LET r == req[i] IN
        /\ (r.pc = "replied" /\ r.route = "Register" /\ r.status = 201) => RowValuesOf(r.email)
        /\ (ResolverDone(r) /\ r.healed) => RowValuesOf(r.uid)

\* C24: an assign-organization answered 201 concerns a resource that was
\* assigned, before the request, to an organization of the caller's
\* organizationIds (the row the request created is that of its target
\* organization, so the earlier row is one of another organization).
AssignedBefore(r) ==
    \E row \in AssignmentRows(r.route) :
        /\ row.id = r.id
        /\ row.status = "active"
        /\ row.organizationId # r.organizationId
        /\ row.organizationId \in Range(r.organizationIds)

C24_AssignNeedsVisibleResource ==
    \A i \in Reqs :
        LET r == req[i] IN
        (r.pc = "replied" /\ r.route \in AssignRoutes /\ r.status = 201)
            => /\ r.organizationId \in Range(r.organizationIds)
               /\ AssignedBefore(r)

\* C25: a handler of a route that is not public runs only with request.user
\* attached, whatever the URL of the request contains.
C25_HandlerHasContext ==
    \A i \in Reqs :
        (req[i].pc = "handler" /\ req[i].route \notin PublicRouteNames) => req[i].attached

\* C26: among concurrent first requests of a super-admin without access rows
\* none is answered 403 for an active organization.
C26_NoPartialProvisioning ==
    \A i \in Reqs :
        LET r == req[i]
            candidate == SelectCurrent(r.hdr, r.primaryOrganizationId, r.organizationIds)
        IN
        (r.pc = "replied" /\ r.status = 403 /\ users[r.uid].role = "super_admin")
            => candidate \notin ActiveOrganizations(organizations)

\* C27: when the context is attached, every id of organizationIds and every
\* entry of organizationAccess is an active access row of the user in the
\* store, with the entry's role.
PersistedActive(u, o) == \E row \in RowsOf(access, u, o) : row.status = "active"

PersistedEntry(u, entry) ==
    \E row \in RowsOf(access, u, entry.organizationId) :
        row.status = "active" /\ row.role = entry.role

C27_ContextIsPersisted ==
    \A i \in Reqs :
        LET r == req[i] IN
        (r.pc = "handler" /\ r.attached)
            => /\ \A k \in 1..Len(r.organizationIds) : PersistedActive(r.uid, r.organizationIds[k])
               /\ \A k \in 1..Len(r.organizationAccess) :
                     PersistedEntry(r.uid, r.organizationAccess[k])

\* C28: a seed run beside requests of the seeded admin does not fail, leaves
\* the admin with exactly the one active admin row per seeded organization,
\* and no request of the admin finds the admin without rows (which is what
\* starts self-heal).
C28_SeedBesideRequests ==
    /\ seed.pc # "failed"
    /\ seed.pc = "done" => {row \in access : row.userId = SeedAdmin} = SeedAccess(SeedAdmin, SeedOrgs)
    /\ \A i \in Reqs : req[i].uid = SeedAdmin => req[i].pc # "enumerate"

\* C29: the switch-organization handler writes nothing to the store; for an
\* attached caller it answers 200 when the organization is in the caller's
\* organizationIds and 403 when it is not; and the caller's next request with
\* the same headers gets the context the switch request itself was resolved
\* with, whatever organization the switch named.
SwitchAnswers(i) ==
    req[i].route = "SwitchOrganization" /\ req[i].pc = "handler" /\ req'[i].pc = "replied"

SwitchAnswer ==
    \A i \in Reqs :
        LET r == req[i] IN
        (Answered(i) /\ r.route = "SwitchOrganization" /\ r.attached)
            => r.status = (IF r.organizationId \in Range(r.organizationIds) THEN 200 ELSE 403)

AfterSwitch ==
    \A i \in Reqs \ {1} :
        LET w == req[i - 1]
            r == req[i]
        IN
        (/\ Answered(i - 1) /\ w.route = "SwitchOrganization" /\ w.status \in {200, 403}
         /\ w.attached /\ r.auth = w.auth /\ r.hdr = w.hdr /\ ResolverDone(r))
            => SameContext(w, r)

Resolving(i) ==
    /\ req[i].pc \in {"lookup", "enumerate", "insert", "primary", "select"}
    /\ req'[i] # req[i]

AfterSelfHeal(i) ==
    /\ i # 1
    /\ Answered(i - 1) /\ req[i - 1].healed /\ req[i - 1].attached
    /\ req[i].auth = req[i - 1].auth

SecondResolutionWrites ==
    \A i \in Reqs : (AfterSelfHeal(i) /\ Resolving(i)) => UNCHANGED store

OthersNeverWrite ==
    \A i \in Reqs :
        (Resolving(i) /\ req[i].uid \in UserIds /\ users[req[i].uid].role # "super_admin")
            => UNCHANGED store

SameOrganizationIds ==
    \A i \in Reqs :
        (AfterSelfHeal(i) /\ ResolverDone(req[i]))
            => /\ req[i].attached
               /\ Range(req[i].organizationIds) = Range(req[i - 1].organizationIds)

C30_SelfHealIdempotent ==
    /\ [][SecondResolutionWrites /\ OthersNeverWrite]_vars
    /\ []SameOrganizationIds

====
